---- MODULE Spec2Model ----
(***************************************************************************)
(* Conversation-state and active-activity tracker of the Telegram AI bot:  *)
(* MemoryManager / ConversationMemory (memory.py) and the message and      *)
(* callback routing of AIBot (bot.py).                                     *)
(*                                                                         *)
(* Texts are sequences of characters.  A character is a one-character      *)
(* string; a Cyrillic character is written as its code point, "u043f".     *)
(***************************************************************************)
EXTENDS Integers, Sequences, FiniteSets, TLC

(***************************************************************************)
(* Characters and the string functions the router uses                     *)
(***************************************************************************)

Digits ==
    {"0", "1", "2", "3", "4", "5", "6", "7", "8", "9"}

AsciiLower ==
    {"a", "b", "c", "d", "e", "f", "g", "h", "i", "j", "k", "l", "m",
     "n", "o", "p", "q", "r", "s", "t", "u", "v", "w", "x", "y", "z"}

AsciiUpper ==
    {"A", "B", "C", "D", "E", "F", "G", "H", "I", "J", "K", "L", "M",
     "N", "O", "P", "Q", "R", "S", "T", "U", "V", "W", "X", "Y", "Z"}

CyrillicLower ==
    {"u0430", "u0431", "u0432", "u0433", "u0434", "u0435", "u0436", "u0437",
     "u0438", "u0439", "u043a", "u043b", "u043c", "u043d", "u043e", "u043f",
     "u0440", "u0441", "u0442", "u0443", "u0444", "u0445", "u0446", "u0447",
     "u0448", "u0449", "u044a", "u044b", "u044c", "u044d", "u044e", "u044f"}

\* str.lower() on one character
LowerChar(c) ==
    CASE c = "A" -> "a" [] c = "B" -> "b" [] c = "C" -> "c" [] c = "D" -> "d"
      [] c = "E" -> "e" [] c = "F" -> "f" [] c = "G" -> "g" [] c = "H" -> "h"
      [] c = "I" -> "i" [] c = "J" -> "j" [] c = "K" -> "k" [] c = "L" -> "l"
      [] c = "M" -> "m" [] c = "N" -> "n" [] c = "O" -> "o" [] c = "P" -> "p"
      [] c = "Q" -> "q" [] c = "R" -> "r" [] c = "S" -> "s" [] c = "T" -> "t"
      [] c = "U" -> "u" [] c = "V" -> "v" [] c = "W" -> "w" [] c = "X" -> "x"
      [] c = "Y" -> "y" [] c = "Z" -> "z" [] OTHER -> c

\* str.lower()
Lower(s) ==
    [i \in 1..Len(s) |-> LowerChar(s[i])]

\* \s of the regular expressions, str.strip() and replace(' ', '')
IsSpace(c) ==
    c = " "

\* \w of the regular expressions (letters, digits, underscore)
IsWord(c) ==
    c \in Digits \cup AsciiLower \cup AsciiUpper \cup CyrillicLower \cup {"_"}

\* s[i:] (1-based: the characters from position i on)
From(s, i) ==
    SubSeq(s, i, Len(s))

\* s.startswith(k)
StartsWith(s, k) ==
    /\ Len(k) <= Len(s)
    /\ SubSeq(s, 1, Len(k)) = k

\* k in s
Contains(s, k) ==
    \E i \in 1..(Len(s) + 1) : StartsWith(From(s, i), k)

\* any(keyword in s for keyword in keywords)
ContainsAny(s, keywords) ==
    \E j \in 1..Len(keywords) : Contains(s, keywords[j])

\* s.replace(k, '')
RECURSIVE Remove(_, _)
Remove(s, k) ==
    IF Len(s) = 0 \/ Len(k) = 0 THEN s
    ELSE IF StartsWith(s, k) THEN Remove(From(s, Len(k) + 1), k)
    ELSE <<s[1]>> \o Remove(Tail(s), k)

\* for keyword in keywords: s = s.replace(keyword, '')
RECURSIVE RemoveEach(_, _)
RemoveEach(s, keywords) ==
    IF Len(keywords) = 0 THEN s
    ELSE RemoveEach(Remove(s, Head(keywords)), Tail(keywords))

\* s.lstrip(chars)
RECURSIVE LStripChars(_, _)
LStripChars(s, chars) ==
    IF Len(s) > 0 /\ s[1] \in chars THEN LStripChars(Tail(s), chars) ELSE s

\* s.rstrip(chars)
RECURSIVE RStripChars(_, _)
RStripChars(s, chars) ==
    IF Len(s) > 0 /\ s[Len(s)] \in chars
    THEN RStripChars(SubSeq(s, 1, Len(s) - 1), chars)
    ELSE s

\* s.strip(chars)
StripChars(s, chars) ==
    RStripChars(LStripChars(s, chars), chars)

\* s.strip()
Strip(s) ==
    StripChars(s, {" "})

\* s.replace(' ', '')
RemoveSpaces(s) ==
    SelectSeq(s, LAMBDA c : ~IsSpace(c))

\* s.isdigit()
IsDigit(s) ==
    /\ Len(s) > 0
    /\ \A i \in 1..Len(s) : s[i] \in Digits

DigitValue(c) ==
    CASE c = "0" -> 0 [] c = "1" -> 1 [] c = "2" -> 2 [] c = "3" -> 3
      [] c = "4" -> 4 [] c = "5" -> 5 [] c = "6" -> 6 [] c = "7" -> 7
      [] c = "8" -> 8 [] c = "9" -> 9

\* int(s) for a digit string
RECURSIVE ToInt(_)
ToInt(s) ==
    IF Len(s) = 0 THEN 0
    ELSE 10 * ToInt(SubSeq(s, 1, Len(s) - 1)) + DigitValue(s[Len(s)])

\* the length of the longest prefix of s made of \s characters
RECURSIVE SpaceRun(_)
SpaceRun(s) ==
    IF Len(s) > 0 /\ IsSpace(s[1]) THEN 1 + SpaceRun(Tail(s)) ELSE 0

\* the length of the longest prefix of s made of \w characters
RECURSIVE WordRun(_)
WordRun(s) ==
    IF Len(s) > 0 /\ IsWord(s[1]) THEN 1 + WordRun(Tail(s)) ELSE 0

(***************************************************************************)
(* Natural-language tool triggers (AIBot._check_tool_request)              *)
(***************************************************************************)

weather_keywords ==
    << <<"u043f", "u043e", "u0433", "u043e", "u0434", "u0430">>,
       <<"u043f", "u043e", "u0433", "u043e", "u0434", "u043a", "u0430">>,
       <<"u043a", "u0430", "u043a", "u0430", "u044f", " ",
         "u043f", "u043e", "u0433", "u043e", "u0434", "u0430">>,
       <<"w", "e", "a", "t", "h", "e", "r">>,
       <<"u0442", "u0435", "u043c", "u043f", "u0435", "u0440", "u0430",
         "u0442", "u0443", "u0440", "u0430">>,
       <<"u043f", "u0440", "u043e", "u0433", "u043d", "u043e", "u0437">> >>

\* the words _extract_city_from_weather_request deletes, in its order
city_strip_keywords ==
    weather_keywords \o
    << <<"u0432">>, <<"u043d", "u0430">>, <<"u0432", "u043e">> >>

translate_keywords ==
    << <<"u043f", "u0435", "u0440", "u0435", "u0432", "u0435", "u0434", "u0438">>,
       <<"u043f", "u0435", "u0440", "u0435", "u0432", "u043e", "u0434">>,
       <<"t", "r", "a", "n", "s", "l", "a", "t", "e">>,
       <<"t", "r", "a", "n", "s", "l", "a", "t", "i", "o", "n">> >>

fun_keywords ==
    << <<"u0444", "u0430", "u043a", "u0442">>,
       <<"u0448", "u0443", "u0442", "u043a", "u0430">>,
       <<"u0446", "u0438", "u0442", "u0430", "u0442", "u0430">>,
       <<"f", "a", "c", "t">>,
       <<"j", "o", "k", "e">>,
       <<"q", "u", "o", "t", "e">>,
       <<"u0438", "u043d", "u0442", "u0435", "u0440", "u0435", "u0441",
         "u043d", "u043e", "u0435">>,
       <<"u0438", "u043d", "u0442", "u0435", "u0440", "u0435", "u0441",
         "u043d", "u044b", "u0439", " ", "u0444", "u0430", "u043a", "u0442">> >>

\* the city of a weather request; <<>> stands for None
extract_city_from_weather_request(text) ==
    LET city == StripChars(RemoveEach(Lower(text), city_strip_keywords),
                           {" ", ",", ".", "!", "?"})
    IN  IF Len(city) > 1 THEN city ELSE <<>>

\* re.match of  \s+ kw2 \s+ (\w+) \s+ (.+)  on s, the text after the first
\* keyword: [ok, lang, text], the two groups as the regular expression
\* binds them (greedy runs; the last \s+ gives one character back to (.+)
\* when it would otherwise reach the end of the text)
MatchAfterKeyword(s, kw2) ==
    LET fail == [ok |-> FALSE, lang |-> <<>>, text |-> <<>>]
        \* \s+ (.+) on s4, the text after the group lang; sp3 is its run of \s
        Rest(lang, s4, sp3) ==
            IF sp3 = 0 THEN fail
            ELSE IF Len(s4) > sp3
            THEN [ok |-> TRUE, lang |-> lang, text |-> From(s4, sp3 + 1)]
            ELSE IF sp3 >= 2
            THEN [ok |-> TRUE, lang |-> lang, text |-> <<" ">>]
            ELSE fail
        \* (\w+) \s+ (.+) on s3; w is its run of \w
        Word(s3, w) ==
            IF w = 0 THEN fail
            ELSE Rest(SubSeq(s3, 1, w), From(s3, w + 1), SpaceRun(From(s3, w + 1)))
        \* \s+ (\w+) \s+ (.+) on s2; sp2 is its run of \s
        Spaces(s2, sp2) ==
            IF sp2 = 0 THEN fail
            ELSE Word(From(s2, sp2 + 1), WordRun(From(s2, sp2 + 1)))
        \* kw2 \s+ (\w+) \s+ (.+) on s1
        Keyword(s1) ==
            IF ~StartsWith(s1, kw2) THEN fail
            ELSE Spaces(From(s1, Len(kw2) + 1), SpaceRun(From(s1, Len(kw2) + 1)))
    IN  IF SpaceRun(s) = 0 THEN fail ELSE Keyword(From(s, SpaceRun(s) + 1))

\* re.search(kw1 \s+ kw2 \s+ (\w+) \s+ (.+), s): the leftmost match
RECURSIVE SearchPattern(_, _, _)
SearchPattern(s, kw1, kw2) ==
    IF Len(s) < Len(kw1) THEN [ok |-> FALSE, lang |-> <<>>, text |-> <<>>]
    ELSE LET Found(m) == IF m.ok THEN m ELSE SearchPattern(Tail(s), kw1, kw2)
         IN  Found(IF StartsWith(s, kw1)
                   THEN MatchAfterKeyword(From(s, Len(kw1) + 1), kw2)
                   ELSE [ok |-> FALSE, lang |-> <<>>, text |-> <<>>])

RU_perevedi ==
    <<"u043f", "u0435", "u0440", "u0435", "u0432", "u0435", "u0434", "u0438">>

RU_na ==
    <<"u043d", "u0430">>

EN_translate ==
    <<"t", "r", "a", "n", "s", "l", "a", "t", "e">>

EN_to ==
    <<"t", "o">>

\* (lang, text_to_translate); ok = FALSE stands for (None, None)
extract_translation_from_request(text) ==
    LET Groups(ru, en) ==
            IF ru.ok THEN [ok |-> TRUE, lang |-> Lower(ru.lang), text |-> Strip(ru.text)]
            ELSE IF en.ok
            THEN [ok |-> TRUE, lang |-> Lower(en.lang), text |-> Strip(en.text)]
            ELSE [ok |-> FALSE, lang |-> <<>>, text |-> <<>>]
    IN  Groups(SearchPattern(Lower(text), RU_perevedi, RU_na),
               SearchPattern(Lower(text), EN_translate, EN_to))

MathOperators ==
    {"+", "-", "*", "/", "^", "(", ")"}

is_math_expression(text) ==
    LET t == RemoveSpaces(text)
    IN  /\ \E i \in 1..Len(t) : t[i] \in Digits
        /\ \E i \in 1..Len(t) : t[i] \in MathOperators
        /\ Len(t) > 1

\* the language codes of Translator.SUPPORTED_LANGUAGES
LanguageCodes ==
    {"uz", "ru", "en", "es", "fr", "de", "it", "pt", "zh", "ja", "ko"}

\* the characters of a language code
CodeChars(l) ==
    CASE l = "uz" -> <<"u", "z">> [] l = "ru" -> <<"r", "u">>
      [] l = "en" -> <<"e", "n">> [] l = "es" -> <<"e", "s">>
      [] l = "fr" -> <<"f", "r">> [] l = "de" -> <<"d", "e">>
      [] l = "it" -> <<"i", "t">> [] l = "pt" -> <<"p", "t">>
      [] l = "zh" -> <<"z", "h">> [] l = "ja" -> <<"j", "a">>
      [] l = "ko" -> <<"k", "o">>

\* lang in translator.SUPPORTED_LANGUAGES, for a language typed in a text
SUPPORTED_LANGUAGES ==
    {CodeChars(l) : l \in LanguageCodes}

\* The tool that claims a text, tested in the order of _check_tool_request;
\* "none" when no trigger matches.
ToolTriggerWeatherLast(text) ==
    LET text_lower == Strip(Lower(text))
    IN  IF ContainsAny(text_lower, translate_keywords) THEN "translation"
        ELSE IF is_math_expression(text) THEN "calculator"
        ELSE IF ContainsAny(text_lower, fun_keywords) THEN "fun"
        ELSE IF ContainsAny(text_lower, weather_keywords) THEN "weather"
        ELSE "none"

ToolTrigger(text) ==
    LET text_lower == Strip(Lower(text))
    IN  IF ContainsAny(text_lower, weather_keywords) THEN "weather"
        ELSE IF ContainsAny(text_lower, translate_keywords) THEN "translation"
        ELSE IF is_math_expression(text) THEN "calculator"
        ELSE IF ContainsAny(text_lower, fun_keywords) THEN "fun"
        ELSE "none"

(***************************************************************************)
(* ConversationMemory (memory.py)                                          *)
(*                                                                         *)
(* A time is [kind, t]: a datetime object, the ISO string isoformat()      *)
(* makes of it, or None; t counts hours.  A dict is a function from its    *)
(* keys; None is the string "None".  The value of a key that holds a dict  *)
(* (RefKeys) is <<>> when it is the dict itself and <<d>> when it is       *)
(* another dict d.  created_at, last_updated and user_preferences are left *)
(* out: no modelled operation reads them.                                  *)
(***************************************************************************)

\* ConversationMemory.__init__ defaults
max_messages == 20
max_age_hours == 24

NoneTime ==
    [kind |-> "none", t |-> 0]

\* a datetime object
DateTime(t) ==
    [kind |-> "datetime", t |-> t]

\* hasattr(v, 'isoformat'): v.isoformat(), anything else is left as it is
IsoFormat(v) ==
    IF v.kind = "datetime" THEN [kind |-> "str", t |-> v.t] ELSE v

\* isinstance(v, str): datetime.fromisoformat(v), anything else is left
FromIsoFormat(v) ==
    IF v.kind = "str" THEN [kind |-> "datetime", t |-> v.t] ELSE v

EmptyDict ==
    <<>>

\* d[k] = v
Put(d, k, v) ==
    [x \in (DOMAIN d) \cup {k} |-> IF x = k THEN v ELSE d[x]]

\* bool(d) of a dict
NonEmpty(d) ==
    DOMAIN d # {}

\* the keys whose values are times, and the keys whose values are dicts
TimeKeys ==
    {"start_time", "question_start_time"}

RefKeys ==
    {"quiz_active", "quiz_setup"}

NewMemory ==
    [messages       |-> <<>>,
     total_messages |-> 0,
     current_persona |-> "None",
     active_game    |-> "None",
     game_data      |-> EmptyDict,
     last_game_time |-> NoneTime]

\* self.messages[-n:]
LastN(seq, n) ==
    IF Len(seq) > n THEN SubSeq(seq, Len(seq) - n + 1, Len(seq)) ELSE seq

FirstN(seq, n) ==
    IF Len(seq) > n THEN SubSeq(seq, 1, n) ELSE seq

NewMessage(role, content, message_type, time) ==
    [role |-> role, content |-> content,
     timestamp |-> DateTime(time), type |-> message_type]

add_message_keep_oldest(m, role, content, message_type, time) ==
    [m EXCEPT !.messages = FirstN(Append(@, NewMessage(role, content, message_type, time)),
                                  max_messages),
              !.total_messages = @ + 1]

add_message_count_retained(m, role, content, message_type, time) ==
    LET msgs == LastN(Append(m.messages, NewMessage(role, content, message_type, time)),
                      max_messages)
    IN  [m EXCEPT !.messages = msgs, !.total_messages = Len(msgs)]

add_message(m, role, content, message_type, time) ==
    [m EXCEPT !.messages = LastN(Append(@, NewMessage(role, content, message_type, time)),
                                 max_messages),
              !.total_messages = @ + 1]

\* game_data or {}
set_active_game(m, game_type, game_data, time) ==
    [m EXCEPT !.active_game = game_type,
              !.game_data = game_data,
              !.last_game_time = DateTime(time)]

clear_active_game(m) ==
    [m EXCEPT !.active_game = "None", !.game_data = EmptyDict]

update_game_data(m, key, value) ==
    [m EXCEPT !.game_data = Put(@, key, value)]

\* ConversationMemory.clear_old_messages; the times are counted in hours
clear_old_messages(m, time) ==
    LET cutoff_time == time - max_age_hours
        Recent(msg) == msg.timestamp.t > cutoff_time
    IN  [m EXCEPT !.messages = SelectSeq(@, Recent)]

\* ConversationMemory.set_persona
set_persona(m, persona_name) ==
    [m EXCEPT !.current_persona = persona_name]

(***************************************************************************)
(* MemoryManager (memory.py): the store file and the per-user memories     *)
(*                                                                         *)
(* The file is [state, data]: absent, valid JSON holding data, or corrupt  *)
(* (not parseable).  memories is a function from the user ids that have a  *)
(* memory.                                                                 *)
(***************************************************************************)

NoFile ==
    [state |-> "absent", data |-> <<>>]

CorruptFile ==
    [state |-> "corrupt", data |-> <<>>]

\* does following the dict-valued keys of d lead back to a dict on the path
RECURSIVE HasCycle(_)
HasCycle(d) ==
    \E k \in (DOMAIN d) \cap RefKeys :
        \/ d[k] = <<>>
        \/ HasCycle(d[k][1])

\* _convert_datetime_in_dict: rewrites the dict it is given, in place
RECURSIVE convert_datetime_in_dict(_)
convert_datetime_in_dict(d) ==
    [k \in DOMAIN d |->
        IF k \in TimeKeys THEN IsoFormat(d[k])
        ELSE IF k \in RefKeys
             THEN (IF d[k] = <<>> THEN <<>> ELSE <<convert_datetime_in_dict(d[k][1])>>)
             ELSE d[k]]

\* _convert_strings_to_datetime (every string of the model's time keys is ISO)
RECURSIVE convert_strings_to_datetime(_)
convert_strings_to_datetime(d) ==
    [k \in DOMAIN d |->
        IF k \in TimeKeys THEN FromIsoFormat(d[k])
        ELSE IF k \in RefKeys
             THEN (IF d[k] = <<>> THEN <<>> ELSE <<convert_strings_to_datetime(d[k][1])>>)
             ELSE d[k]]

\* the part of _save_memories that runs on the memories before the file is
\* opened: metadata.copy() is shallow, so game_state is the memory's own dict
ConvertInPlace(mems) ==
    [u \in DOMAIN mems |->
        [mems[u] EXCEPT !.last_game_time = IsoFormat(@),
                        !.game_data = convert_datetime_in_dict(@)]]

\* the fallback of _save_memories: game_data = {} in the shared game_state
WipeGameData(mems) ==
    [u \in DOMAIN mems |-> [mems[u] EXCEPT !.game_data = EmptyDict]]

\* memory_data of one user as json.dump writes it
Serialize(m) ==
    [m EXCEPT !.messages = [i \in 1..Len(@) |-> [@[i] EXCEPT !.timestamp = IsoFormat(@)]]]

\* _save_memories; ok is whether the file can be opened for writing.
\* Result: the memories and the file afterwards.
save_memories(mems, file, ok) ==
    LET conv == ConvertInPlace(mems)
    IN  IF ~ok THEN [mem |-> conv, file |-> file]
        ELSE IF \E u \in DOMAIN conv : HasCycle(conv[u].game_data)
        THEN [mem |-> WipeGameData(conv), file |-> CorruptFile]
        ELSE [mem |-> conv,
              file |-> [state |-> "valid",
                        data |-> [u \in DOMAIN conv |-> Serialize(conv[u])]]]

\* one user's record in _load_memories; a record without game_state (the
\* three fields of it) gets the default one
LoadUser(rec) ==
    LET Converted(r) ==
            [r EXCEPT !.messages = [i \in 1..Len(@) |->
                                       [@[i] EXCEPT !.timestamp = FromIsoFormat(@)]],
                      !.last_game_time = FromIsoFormat(@),
                      !.game_data = convert_strings_to_datetime(@)]
    IN  Converted(IF "active_game" \in DOMAIN rec
                  THEN rec
                  ELSE [k \in (DOMAIN rec) \cup {"active_game", "game_data", "last_game_time"} |->
                           CASE k = "active_game" -> NewMemory.active_game
                             [] k = "game_data" -> NewMemory.game_data
                             [] k = "last_game_time" -> NewMemory.last_game_time
                             [] OTHER -> rec[k]])

\* _load_memories: nothing is loaded from a missing or unparseable file.
\* The records are loaded in the order of the file, inside one try: a
\* record with a timestamp datetime.fromisoformat cannot parse (kind
\* "text") raises, which ends the loading with the records before it
\* loaded.  The files the program writes hold no such record; a file that
\* does names the order of its records.
load_memories(file) ==
    LET Raises(rec) ==
            \E i \in 1..Len(rec.messages) : rec.messages[i].timestamp.kind = "text"
        Position(u) ==
            CHOOSE i \in 1..Len(file.order) : file.order[i] = u
        Reached(u) ==
            \A b \in DOMAIN file.data :
                Raises(file.data[b]) => Position(u) < Position(b)
    IN  IF file.state = "valid"
        THEN [u \in {k \in DOMAIN file.data : Reached(k)} |-> LoadUser(file.data[u])]
        ELSE <<>>

\* get_memory: the memory is created on first use (and not saved)
get_memory(mems, user_id) ==
    IF user_id \in DOMAIN mems THEN mems ELSE Put(mems, user_id, NewMemory)

add_user_message(mems, file, user_id, content, time, ok) ==
    LET ms == get_memory(mems, user_id)
    IN  save_memories([ms EXCEPT ![user_id] = add_message(@, "user", content, "text", time)],
                      file, ok)

add_assistant_message_twice(mems, file, user_id, content, time, ok) ==
    LET ms == get_memory(mems, user_id)
    IN  save_memories([ms EXCEPT ![user_id] =
                          add_message(add_message(@, "assistant", content, "text", time),
                                      "assistant", content, "text", time)],
                      file, ok)

add_assistant_message(mems, file, user_id, content, time, ok) ==
    LET ms == get_memory(mems, user_id)
    IN  save_memories([ms EXCEPT ![user_id] = add_message(@, "assistant", content, "text", time)],
                      file, ok)

\* del self.memories[user_id], saved only when the user had a memory
clear_user_memory_unsaved(mems, file, user_id, ok) ==
    IF user_id \in DOMAIN mems
    THEN [mem |-> [u \in (DOMAIN mems) \ {user_id} |-> mems[u]], file |-> file,
          removed |-> TRUE]
    ELSE [mem |-> mems, file |-> file, removed |-> FALSE]

\* removed is the value returned
clear_user_memory(mems, file, user_id, ok) ==
    IF user_id \in DOMAIN mems
    THEN LET Removed(saved) == [mem |-> saved.mem, file |-> saved.file, removed |-> TRUE]
         IN  Removed(save_memories([u \in (DOMAIN mems) \ {user_id} |-> mems[u]], file, ok))
    ELSE [mem |-> mems, file |-> file, removed |-> FALSE]

set_user_active_game_unsaved(mems, file, user_id, game_type, game_data, time, ok) ==
    LET ms == get_memory(mems, user_id)
    IN  [mem |-> [ms EXCEPT ![user_id] = set_active_game(@, game_type, game_data, time)],
         file |-> file]

set_user_active_game(mems, file, user_id, game_type, game_data, time, ok) ==
    LET ms == get_memory(mems, user_id)
    IN  save_memories([ms EXCEPT ![user_id] = set_active_game(@, game_type, game_data, time)],
                      file, ok)

get_user_active_game(mems, user_id) ==
    get_memory(mems, user_id)[user_id].active_game

get_user_game_data(mems, user_id) ==
    get_memory(mems, user_id)[user_id].game_data

clear_user_active_game(mems, file, user_id, ok) ==
    LET ms == get_memory(mems, user_id)
    IN  save_memories([ms EXCEPT ![user_id] = clear_active_game(@)], file, ok)

update_user_game_data(mems, file, user_id, key, value, ok) ==
    LET ms == get_memory(mems, user_id)
    IN  save_memories([ms EXCEPT ![user_id] = update_game_data(@, key, value)], file, ok)

update_user_persona(mems, file, user_id, persona_name, ok) ==
    LET ms == get_memory(mems, user_id)
    IN  save_memories([ms EXCEPT ![user_id] = set_persona(@, persona_name)], file, ok)

\* cleanup_old_memories; count is the value returned
cleanup_old_memories(mems, file, time, ok) ==
    LET Cleaned(cleared, cleaned_count) ==
            IF cleaned_count > 0
            THEN LET Counted(saved) ==
                         [mem |-> saved.mem, file |-> saved.file, count |-> cleaned_count]
                 IN  Counted(save_memories(cleared, file, ok))
            ELSE [mem |-> cleared, file |-> file, count |-> 0]
        Shrunk(cleared) ==
            Cleaned(cleared,
                    Cardinality({u \in DOMAIN mems :
                                    Len(cleared[u].messages) < Len(mems[u].messages)}))
    IN  Shrunk([u \in DOMAIN mems |-> clear_old_messages(mems[u], time)])

(***************************************************************************)
(* PersonaManager (personas.py)                                            *)
(***************************************************************************)

\* PersonaType, those the users of the model choose
PersonaTypes ==
    {"friendly", "programmer"}

\* Persona.name of a type (the Russian names, transliterated)
PersonaName(persona_type) ==
    CASE persona_type = "friendly" -> "Druzhelyubnyj pomoshchnik"
      [] persona_type = "programmer" -> "Programmist"
      [] persona_type = "expert" -> "Ekspert"
      [] persona_type = "creative" -> "Kreativ"
      [] persona_type = "professional" -> "Professional"

(***************************************************************************)
(* AIBot (bot.py): collaborators and the pure parts of the handlers        *)
(***************************************************************************)

\* GameService.guess_number_game: the range of a difficulty
GuessRange(difficulty) ==
    CASE difficulty = "easy" -> 1..10
      [] difficulty = "medium" -> 1..100
      [] difficulty = "hard" -> 1..1000
      [] OTHER -> 1..100

check_guess_inverted(guess, target) ==
    IF guess < target THEN "lower"
    ELSE IF guess > target THEN "higher"
    ELSE "correct"

\* GameService.check_guess: "higher" says the target is greater than the guess
check_guess(guess, target) ==
    IF guess < target THEN "higher"
    ELSE IF guess > target THEN "lower"
    ELSE "correct"

\* max(0, (total_questions - 5) // 5); // rounds down
max_hints(total_questions) ==
    IF (total_questions - 5) \div 5 > 0 THEN (total_questions - 5) \div 5 ELSE 0

\* the words _process_fun_request looks for
RU_joke ==
    <<"u0448", "u0443", "u0442", "u043a", "u0430">>

EN_joke ==
    <<"j", "o", "k", "e">>

RU_fact ==
    <<"u0444", "u0430", "u043a", "u0442">>

EN_fact ==
    <<"f", "a", "c", "t">>

RU_quote ==
    <<"u0446", "u0438", "u0442", "u0430", "u0442", "u0430">>

EN_quote ==
    <<"q", "u", "o", "t", "e">>

ToolNames ==
    {"weather", "translation", "calculator", "fun"}

\* the active_game values of a pending translation
TranslateGames ==
    {"translate_" \o l : l \in LanguageCodes}

\* the error text handle_text_message stores when no response was generated
error_msg ==
    <<"error_msg">>

ToolReply_any_language(text, collab) ==
    LET Reply(tool, tr, city, text_lower) ==
          CASE tool = "weather" ->
               IF city = <<>> THEN "weather_usage"
               ELSE IF collab THEN "weather_info" ELSE "weather_failed"
          [] tool = "translation" ->
               IF ~tr.ok THEN "translate_usage"
               ELSE IF collab THEN "translation" ELSE "translate_failed"
          [] tool = "calculator" ->
               IF collab THEN "calc_result" ELSE "calc_failed"
          [] tool = "fun" ->
               IF Contains(text_lower, RU_joke) \/ Contains(text_lower, EN_joke) THEN "joke"
               ELSE IF Contains(text_lower, RU_fact) \/ Contains(text_lower, EN_fact) THEN "fact"
               ELSE IF Contains(text_lower, RU_quote) \/ Contains(text_lower, EN_quote) THEN "quote"
               ELSE "fact"
          [] OTHER -> ""
    IN  Reply(ToolTrigger(text), extract_translation_from_request(text),
              extract_city_from_weather_request(text), Lower(text))

\* the reply a text claimed by a tool gets; collab is whether the
\* collaborator (weather service, translator, calculator) answers
ToolReply(text, collab) ==
    LET Reply(tool, tr, city, text_lower) ==
          CASE tool = "weather" ->
               IF city = <<>> THEN "weather_usage"
               ELSE IF collab THEN "weather_info" ELSE "weather_failed"
          [] tool = "translation" ->
               IF ~tr.ok THEN "translate_usage"
               ELSE IF tr.lang \notin SUPPORTED_LANGUAGES THEN "unsupported_language"
               ELSE IF collab THEN "translation" ELSE "translate_failed"
          [] tool = "calculator" ->
               IF collab THEN "calc_result" ELSE "calc_failed"
          [] tool = "fun" ->
               IF Contains(text_lower, RU_joke) \/ Contains(text_lower, EN_joke) THEN "joke"
               ELSE IF Contains(text_lower, RU_fact) \/ Contains(text_lower, EN_fact) THEN "fact"
               ELSE IF Contains(text_lower, RU_quote) \/ Contains(text_lower, EN_quote) THEN "quote"
               ELSE "fact"
          [] OTHER -> ""
    IN  Reply(ToolTrigger(text), extract_translation_from_request(text),
              extract_city_from_weather_request(text), Lower(text))

Users ==
    {1, 2}

\* the texts users send
T_hi ==
    <<"h", "i">>

T_7 ==
    <<"7">>

T_weather_math ==
    <<"W", "e", "a", "t", "h", "e", "r", " ", "2", "+", "2">>

T_math ==
    <<"2", "+", "2">>

T_joke ==
    <<"j", "o", "k", "e">>

T_translate ==
    <<"t", "r", "a", "n", "s", "l", "a", "t", "e", " ", "t", "o", " ", "e", "n", " ", "h", "i">>

T_translate_bad ==
    <<"t", "r", "a", "n", "s", "l", "a", "t", "e", " ", "t", "o", " ", "x", "x", " ", "h", "i">>

T_pogoda ==
    <<"u043f", "u043e", "u0433", "u043e", "u0434", "u0430">>

Texts ==
    {T_hi, T_7, T_weather_math, T_math, T_joke, T_translate, T_translate_bad, T_pogoda}

T_2 ==
    <<"2">>

\* the texts sent while a quiz is played
QuizTexts ==
    {T_2, T_hi, T_math}

\* the texts as the handlers see them (message.text.strip())
InputTexts ==
    {Strip(raw) : raw \in Texts \cup QuizTexts}

\* ToolTrigger and ToolReply of the texts sent, computed once
ToolTriggerOf ==
    [text \in InputTexts |-> ToolTrigger(text)]

ToolReplyOf ==
    [text \in InputTexts |-> [collab \in BOOLEAN |-> ToolReply(text, collab)]]

check_tool_request_recording(mems, fl, user_id, text, time, collab, ok) ==
    LET r == add_user_message(mems, fl, user_id, text, time, ok)
    IN  [handled |-> ToolTriggerOf[text] # "none", tool |-> ToolTriggerOf[text],
         reply |-> ToolReplyOf[text][collab], mem |-> r.mem, file |-> r.file]

\* _check_tool_request and the _process_*_request it calls: none of them
\* calls the memory manager, so the memories and the file come back as given
check_tool_request(mems, fl, user_id, text, time, collab, ok) ==
    [handled |-> ToolTriggerOf[text] # "none", tool |-> ToolTriggerOf[text],
     reply |-> ToolReplyOf[text][collab], mem |-> mems, file |-> fl]

check_game_response_ends_on_invalid(mems, fl, user_id, text, time, collab, ok) ==
    LET ms == get_memory(mems, user_id)
        active_game == ms[user_id].active_game
        game_data == ms[user_id].game_data
        no == [handled |-> FALSE, reply |-> "", mem |-> ms, file |-> fl, pending |-> FALSE]
        cleared == clear_user_active_game(ms, fl, user_id, ok)
    IN  CASE active_game = "guess_number" ->
               IF /\ IsDigit(text)
                  /\ "target_number" \in DOMAIN game_data
                  /\ game_data.target_number # 0
               THEN LET result == check_guess(ToInt(text), game_data.target_number)
                    IN  IF result = "correct"
                        THEN [handled |-> TRUE, reply |-> result, mem |-> cleared.mem,
                              file |-> cleared.file, pending |-> FALSE]
                        ELSE [no EXCEPT !.handled = TRUE, !.reply = result]
               ELSE [handled |-> TRUE, reply |-> "not_a_number", mem |-> cleared.mem,
                     file |-> cleared.file, pending |-> FALSE]
          [] active_game = "magic_ball" ->
               IF Len(Strip(text)) > 0
               THEN [handled |-> TRUE, reply |-> "ball_answer", mem |-> cleared.mem,
                     file |-> cleared.file, pending |-> FALSE]
               ELSE no
          [] active_game \in TranslateGames ->
               IF Len(Strip(text)) > 0
               THEN IF collab
                    THEN [handled |-> TRUE, reply |-> "translation", mem |-> cleared.mem,
                          file |-> cleared.file, pending |-> FALSE]
                    ELSE [no EXCEPT !.handled = TRUE, !.reply = "translate_failed"]
               ELSE no
          [] active_game = "quiz_custom_count" ->
               IF Len(Strip(text)) = 0 THEN [no EXCEPT !.handled = TRUE]
               ELSE IF ~IsDigit(Strip(text))
               THEN [no EXCEPT !.handled = TRUE, !.reply = "count_not_a_number"]
               ELSE IF ~(1 <= ToInt(Strip(text)) /\ ToInt(Strip(text)) <= 50)
               THEN [no EXCEPT !.handled = TRUE, !.reply = "count_out_of_range"]
               ELSE IF NonEmpty(game_data)
               THEN LET counted == [ms EXCEPT ![user_id].game_data =
                                       Put(@, "question_count", ToInt(Strip(text)))]
                        upd == update_user_game_data(counted, fl, user_id, "quiz_setup", <<>>, ok)
                    IN  [handled |-> TRUE, reply |-> "count_set", mem |-> upd.mem,
                         file |-> upd.file, pending |-> TRUE]
               ELSE [no EXCEPT !.handled = TRUE, !.reply = "count_set", !.pending = TRUE]
          [] OTHER -> no

\* _check_game_response up to its first await that is followed by a write;
\* pending says that clear_user_active_game is still to come after the reply.
\* Its branches for "quiz" and "rps" are left out: no handler sets an active
\* game of these names (the quiz runs as "quiz_setup" and "quiz_active").
check_game_response(mems, fl, user_id, text, time, collab, ok) ==
    LET ms == get_memory(mems, user_id)
        active_game == ms[user_id].active_game
        game_data == ms[user_id].game_data
        no == [handled |-> FALSE, reply |-> "", mem |-> ms, file |-> fl, pending |-> FALSE]
        cleared == clear_user_active_game(ms, fl, user_id, ok)
    IN  CASE active_game = "guess_number" ->
               IF /\ IsDigit(text)
                  /\ "target_number" \in DOMAIN game_data
                  /\ game_data.target_number # 0
               THEN LET result == check_guess(ToInt(text), game_data.target_number)
                    IN  IF result = "correct"
                        THEN [handled |-> TRUE, reply |-> result, mem |-> cleared.mem,
                              file |-> cleared.file, pending |-> FALSE]
                        ELSE [no EXCEPT !.handled = TRUE, !.reply = result]
               ELSE no
          [] active_game = "magic_ball" ->
               IF Len(Strip(text)) > 0
               THEN [handled |-> TRUE, reply |-> "ball_answer", mem |-> cleared.mem,
                     file |-> cleared.file, pending |-> FALSE]
               ELSE no
          [] active_game \in TranslateGames ->
               IF Len(Strip(text)) > 0
               THEN IF collab
                    THEN [handled |-> TRUE, reply |-> "translation", mem |-> cleared.mem,
                          file |-> cleared.file, pending |-> FALSE]
                    ELSE [no EXCEPT !.handled = TRUE, !.reply = "translate_failed"]
               ELSE no
          [] active_game = "quiz_custom_count" ->
               IF Len(Strip(text)) = 0 THEN [no EXCEPT !.handled = TRUE]
               ELSE IF ~IsDigit(Strip(text))
               THEN [no EXCEPT !.handled = TRUE, !.reply = "count_not_a_number"]
               ELSE IF ~(1 <= ToInt(Strip(text)) /\ ToInt(Strip(text)) <= 50)
               THEN [no EXCEPT !.handled = TRUE, !.reply = "count_out_of_range"]
               ELSE IF NonEmpty(game_data)
               THEN LET counted == [ms EXCEPT ![user_id].game_data =
                                       Put(@, "question_count", ToInt(Strip(text)))]
                        upd == update_user_game_data(counted, fl, user_id, "quiz_setup", <<>>, ok)
                    IN  [handled |-> TRUE, reply |-> "count_set", mem |-> upd.mem,
                         file |-> upd.file, pending |-> TRUE]
               ELSE [no EXCEPT !.handled = TRUE, !.reply = "count_set", !.pending = TRUE]
          [] OTHER -> no

\* d.get(k, default) for a number
GetNum(d, k, default) ==
    IF k \in DOMAIN d THEN d[k] ELSE default

\* a question as GameService.generate_quiz_question returns it
Question ==
    [question |-> "q", options |-> <<"a", "b", "c", "d">>,
     correct_answer |-> "2", hint |-> "h"]

\* the settings the game_quiz callback stores
QuizSetupData ==
    [industry |-> "random", question_count |-> 10, current_question |-> 0,
     correct_answers |-> 0, total_questions |-> 0, questions |-> <<>>,
     start_time |-> NoneTime]

\* the session the quiz_start callback makes of the settings
QuizSession(game_data, time) ==
    LET question_count == GetNum(game_data, "question_count", 10)
    IN  [industry |-> IF "industry" \in DOMAIN game_data THEN game_data.industry ELSE "random",
         question_count |-> question_count, current_question |-> 0,
         correct_answers |-> 0, total_questions |-> question_count, questions |-> <<>>,
         used_hints |-> 0, start_time |-> DateTime(time),
         question_start_time |-> DateTime(time)]

\* quiz_session.get('current_question') is not None, of a non-empty dict
QuizActive(quiz_session) ==
    NonEmpty(quiz_session) /\ "current_question" \in DOMAIN quiz_session

\* _show_next_quiz_question up to its last await; generated is whether a
\* question could be generated.  quiz_session is the memory's own game_data
\* dict until a save replaces that dict by {}; from then on the handler
\* holds a dict the memory no longer has.
show_next_quiz_question(mems, fl, user_id, time, generated, ok) ==
    LET ms == get_memory(mems, user_id)
        session0 == ms[user_id].game_data
        current_q == session0.current_question
        need == current_q >= Len(session0.questions)
        session1 == Put([session0 EXCEPT !.questions = Append(@, Question)],
                        "quiz_active", <<>>)
        saved1 == save_memories([ms EXCEPT ![user_id].game_data = session1], fl, ok)
        first == IF need
                 THEN [mem |-> saved1.mem, file |-> saved1.file,
                       session |-> convert_datetime_in_dict(session1),
                       own |-> saved1.mem[user_id].game_data = convert_datetime_in_dict(session1)]
                 ELSE [mem |-> ms, file |-> fl, session |-> session0, own |-> TRUE]
        session2 == Put(Put(first.session, "question_start_time", DateTime(time)),
                        "quiz_active", <<>>)
        saved2 == save_memories(
                      [first.mem EXCEPT ![user_id].game_data =
                          IF first.own THEN session2 ELSE Put(@, "quiz_active", <<session2>>)],
                      first.file, ok)
    IN  IF ~QuizActive(session0)
        THEN [mem |-> ms, file |-> fl, reply |-> "quiz_not_active"]
        ELSE IF need /\ ~generated
        THEN [mem |-> ms, file |-> fl, reply |-> "question_failed"]
        ELSE IF current_q >= Len(first.session.questions)
        THEN [mem |-> first.mem, file |-> first.file, reply |-> "error"]
        ELSE [mem |-> saved2.mem, file |-> saved2.file, reply |-> "question_shown"]

\* the quiz_answer_ branch of handle_callback up to its first await; then
\* says what the handler does after it: "clear", "show_next" or nothing
quiz_answer(mems, fl, user_id, user_answer, ok) ==
    LET ms == get_memory(mems, user_id)
        quiz_session == ms[user_id].game_data
        current_q == quiz_session.current_question
        is_correct == user_answer = quiz_session.questions[current_q + 1].correct_answer
        answered == [quiz_session EXCEPT
                        !.correct_answers = IF is_correct THEN @ + 1 ELSE @,
                        !.current_question = @ + 1]
        saved == update_user_game_data([ms EXCEPT ![user_id].game_data = answered], fl,
                                       user_id, "quiz_active", <<>>, ok)
    IN  IF ~QuizActive(quiz_session)
        THEN [mem |-> ms, file |-> fl, reply |-> "quiz_not_active", then |-> ""]
        ELSE IF ~(current_q < Len(quiz_session.questions))
        THEN [mem |-> ms, file |-> fl, reply |-> "question_not_found", then |-> ""]
        ELSE [mem |-> saved.mem, file |-> saved.file,
              reply |-> IF is_correct THEN "right" ELSE "wrong",
              then |-> IF answered.current_question >= answered.total_questions
                       THEN "clear" ELSE "show_next"]

quiz_hint_beyond_budget(mems, fl, user_id, ok) ==
    LET ms == get_memory(mems, user_id)
        quiz_session == ms[user_id].game_data
        current_q == quiz_session.current_question
        total_questions == GetNum(quiz_session, "total_questions", 0)
        used_hints == GetNum(quiz_session, "used_hints", 0)
        saved == update_user_game_data(
                     [ms EXCEPT ![user_id].game_data = Put(@, "used_hints", used_hints + 1)],
                     fl, user_id, "quiz_active", <<>>, ok)
        rejected(reply) == [mem |-> ms, file |-> fl, reply |-> reply]
    IN  IF ~QuizActive(quiz_session) THEN rejected("quiz_not_active")
        ELSE IF max_hints(total_questions) <= 0 THEN rejected("no_hints_in_this_quiz")
        ELSE IF current_q >= Len(quiz_session.questions) THEN rejected("question_unavailable")
        ELSE [mem |-> saved.mem, file |-> saved.file, reply |-> "hint"]

\* the quiz_hint branch of handle_callback
quiz_hint(mems, fl, user_id, ok) ==
    LET ms == get_memory(mems, user_id)
        quiz_session == ms[user_id].game_data
        current_q == quiz_session.current_question
        total_questions == GetNum(quiz_session, "total_questions", 0)
        used_hints == GetNum(quiz_session, "used_hints", 0)
        saved == update_user_game_data(
                     [ms EXCEPT ![user_id].game_data = Put(@, "used_hints", used_hints + 1)],
                     fl, user_id, "quiz_active", <<>>, ok)
        rejected(reply) == [mem |-> ms, file |-> fl, reply |-> reply]
    IN  IF ~QuizActive(quiz_session) THEN rejected("quiz_not_active")
        ELSE IF max_hints(total_questions) <= 0 THEN rejected("no_hints_in_this_quiz")
        ELSE IF used_hints >= max_hints(total_questions) THEN rejected("all_hints_used")
        ELSE IF current_q >= Len(quiz_session.questions) THEN rejected("question_unavailable")
        ELSE [mem |-> saved.mem, file |-> saved.file, reply |-> "hint"]

\* the quiz_industry_ and quiz_count_<n> branches of handle_callback:
\* game_data[key] = value and update_user_game_data(user_id, "quiz_setup", game_data)
quiz_setting(mems, fl, user_id, key, value, ok) ==
    LET ms == get_memory(mems, user_id)
        game_data == ms[user_id].game_data
        saved == update_user_game_data(
                     [ms EXCEPT ![user_id].game_data = Put(@, key, value)],
                     fl, user_id, "quiz_setup", <<>>, ok)
    IN  IF NonEmpty(game_data)
        THEN [mem |-> saved.mem, file |-> saved.file, reply |-> "setting_stored"]
        ELSE [mem |-> ms, file |-> fl, reply |-> ""]

\* _finish_quiz: end_time - start_time raises TypeError when start_time is a
\* string, and then nothing is cleared
finish_quiz(mems, fl, user_id, ok) ==
    LET ms == get_memory(mems, user_id)
        quiz_session == ms[user_id].game_data
        cleared == clear_user_active_game(ms, fl, user_id, ok)
    IN  IF ~NonEmpty(quiz_session)
        THEN [mem |-> ms, file |-> fl, reply |-> "quiz_not_found"]
        ELSE IF "start_time" \in DOMAIN quiz_session /\ quiz_session.start_time.kind = "str"
        THEN [mem |-> ms, file |-> fl, reply |-> "error"]
        ELSE [mem |-> cleared.mem, file |-> cleared.file, reply |-> "quiz_results"]

(***************************************************************************)
(* The running bot                                                         *)
(*                                                                         *)
(* Handlers run as tasks of one event loop: a handler runs alone from one  *)
(* await to the next, and other handlers run while it awaits.  An action   *)
(* is one such stretch.  tasks holds the handlers that wait at an await    *)
(* with work left to do.                                                   *)
(***************************************************************************)

\* memories   MemoryManager.memories: the memory of each user who has one
\* file       the storage file
\* store_ok   can the storage file be opened for writing
\* persona    PersonaManager.current_persona of the one persona_manager
\* tasks      the handlers waiting at an await
\* now        the reading of the clock, in hours; only the cleanup of old
\*            messages compares times, and the clock advances only where
\*            the cleanup is modelled
\* chats      the chat turns started so far
\* appended   for each user the messages appended since the memory was made
\* ev         the last step taken
VARIABLES memories, file, store_ok, persona, tasks, now, chats, appended, ev

vars ==
    <<memories, file, store_ok, persona, tasks, now, chats, appended, ev>>

\* the chat turns the environment starts
MaxChats == 2

\* the hours the clock is let to run
MaxClock == 36

Slots ==
    {1, 2}

\* the users who press buttons and give commands
Players ==
    {1}

\* the users with a chat or a game of their own while a player plays
Others ==
    Users \ Players

\* the responses of the AI collaborator; <<>> is no response
AIResponses ==
    {<<"o", "k">>, <<>>}

\* the numbers random.randint is let to draw
Targets ==
    {3, 7, 9}

\* a store file written by an earlier run: user 1 with a history of
\* complete chat turns two short of max_messages
StoredMessage(i) ==
    [role |-> IF i % 2 = 1 THEN "user" ELSE "assistant",
     content |-> IF i % 2 = 1 THEN T_hi ELSE <<"o", "k">>,
     timestamp |-> IsoFormat(DateTime(0)),
     type |-> "text"]

StoredFile ==
    [state |-> "valid",
     data |-> Put(<<>>, 1, [NewMemory EXCEPT
                  !.messages = [i \in 1..(max_messages - 2) |-> StoredMessage(i)],
                  !.total_messages = max_messages - 2])]

\* store files of an earlier version of the program, edited by hand: the
\* records have no game_state, and in some the first timestamp of one user
\* is not a time
OldFiles ==
    LET OldRecord ==
            [messages |-> <<StoredMessage(1), StoredMessage(2)>>, total_messages |-> 4,
             current_persona |-> "None"]
        Edited(rec) ==
            [rec EXCEPT !.messages[1].timestamp = [kind |-> "text", t |-> 0]]
    IN  {[state |-> "valid", order |-> order,
          data |-> [u \in Users |-> IF u = edited THEN Edited(OldRecord) ELSE OldRecord]] :
             order \in {<<1, 2>>, <<2, 1>>}, edited \in {0, 2}}

Idle ==
    [pc |-> "idle", user |-> 0, content |-> <<>>]

\* the last thing that happened: the handler, its input (text; arg is the
\* button pressed or, for a text given to a game, whether the collaborator
\* of the game answered), what the handler
\* saw before it ran (active, target, running, idx, correct, total, used),
\* where it sent the update (route), what it replied, and whether the
\* activity read back after a set_user_active_game is the one passed (exact);
\* count is the value cleanup_old_memories returned and the number of
\* questions of the quiz that quiz_start started
Event(op, user) ==
    [op |-> op, user |-> user, text |-> <<>>, arg |-> "", active |-> "None",
     target |-> 0, running |-> FALSE, idx |-> 0, correct |-> 0, total |-> 0,
     used |-> 0, route |-> "", reply |-> "", exact |-> TRUE, count |-> 0]

ActiveOf(mems, u) ==
    IF u \in DOMAIN mems THEN mems[u].active_game ELSE "None"

DataOf(mems, u) ==
    IF u \in DOMAIN mems THEN mems[u].game_data ELSE EmptyDict

\* what a handler saw of the user's state when it started
Seen(e, mems, u) ==
    [e EXCEPT !.active = ActiveOf(mems, u),
              !.target = GetNum(DataOf(mems, u), "target_number", 0),
              !.running = QuizActive(DataOf(mems, u)),
              !.idx = GetNum(DataOf(mems, u), "current_question", 0),
              !.total = GetNum(DataOf(mems, u), "total_questions", 0),
              !.correct = GetNum(DataOf(mems, u), "correct_answers", 0),
              !.used = GetNum(DataOf(mems, u), "used_hints", 0)]

\* the messages ever appended to the users' present memories
Log(mems) ==
    [u \in Users |-> IF u \in DOMAIN mems THEN mems[u].messages ELSE <<>>]

Logged(log, mems, u, role, content, time) ==
    [v \in Users |->
        IF v \notin DOMAIN mems THEN <<>>
        ELSE IF v = u THEN Append(log[v], NewMessage(role, content, "text", time))
        ELSE log[v]]

FreeSlot ==
    CHOOSE s \in Slots : tasks[s].pc = "idle" /\ \A r \in Slots : r < s => tasks[r].pc # "idle"

HasFreeSlot ==
    \E s \in Slots : tasks[s].pc = "idle"

\* MemoryManager.__init__ loads the file; whether the file can be written
\* is a condition of the deployment
Started(files) ==
    /\ file \in files
    /\ memories = load_memories(file)
    /\ store_ok \in BOOLEAN
    /\ persona = "friendly"
    /\ tasks = [s \in Slots |-> Idle]
    /\ now = 0
    /\ chats = 0
    /\ appended = Log(memories)
    /\ ev = Event("init", 0)

Init ==
    Started({NoFile, StoredFile})

\* the program is started with a store file of an earlier version, or none
InitOld ==
    Started({NoFile} \cup OldFiles)

\* the process is stopped, whatever its handlers are doing, and started
\* again: the memories are those of the file, the persona is the default
Restart ==
    /\ memories' = load_memories(file)
    /\ persona' = "friendly"
    /\ tasks' = [s \in Slots |-> Idle]
    /\ appended' = Log(memories')
    /\ ev' = Event("restart", 0)
    /\ UNCHANGED <<file, store_ok, now, chats>>

\* handle_text_message, the text is a tool request
TextTool(u, raw) ==
    \E collab \in BOOLEAN :
        LET text == Strip(raw)
            tool == check_tool_request(memories, file, u, text, now, collab, store_ok)
        IN  /\ tool.handled
            /\ memories' = tool.mem
            /\ file' = tool.file
            /\ appended' = [v \in Users |-> IF v \in DOMAIN tool.mem THEN appended[v] ELSE <<>>]
            /\ ev' = [Seen(Event("text", u), memories, u) EXCEPT
                         !.text = text, !.route = tool.tool, !.reply = tool.reply]
            /\ UNCHANGED <<store_ok, persona, tasks, now, chats>>

\* handle_text_message, the text answers the active game
TextGame(u, raw) ==
    \E collab \in BOOLEAN :
        LET text == Strip(raw)
            tool == check_tool_request(memories, file, u, text, now, collab, store_ok)
            game == check_game_response(tool.mem, tool.file, u, text, now, collab, store_ok)
        IN  /\ ~tool.handled
            /\ game.handled
            /\ game.pending => HasFreeSlot
            /\ memories' = game.mem
            /\ file' = game.file
            /\ tasks' = IF game.pending
                        THEN [tasks EXCEPT ![FreeSlot] =
                                 [pc |-> "custom_count_reply", user |-> u, content |-> text]]
                        ELSE tasks
            /\ ev' = [Seen(Event("text", u), memories, u) EXCEPT
                         !.text = text, !.route = "activity", !.reply = game.reply,
                         !.arg = IF collab THEN "collab_ok" ELSE "collab_failed"]
            /\ UNCHANGED <<store_ok, persona, now, chats, appended>>

\* _check_game_response for quiz_custom_count, after its reply
CustomCountFinish(s) ==
    LET u == tasks[s].user
        r == clear_user_active_game(memories, file, u, store_ok)
    IN  /\ tasks[s].pc = "custom_count_reply"
        /\ memories' = r.mem
        /\ file' = r.file
        /\ tasks' = [tasks EXCEPT ![s] = Idle]
        /\ ev' = [Seen(Event("custom_count_finish", u), memories, u) EXCEPT
                     !.text = tasks[s].content]
        /\ UNCHANGED <<store_ok, persona, now, chats, appended>>

\* handle_text_message, generic chat, up to the await of send_chat_action
TextChat(u, raw) ==
    LET text == Strip(raw)
        tool == check_tool_request(memories, file, u, text, now, TRUE, store_ok)
        game == check_game_response(tool.mem, tool.file, u, text, now, TRUE, store_ok)
        r == add_user_message(game.mem, game.file, u, text, now, store_ok)
    IN  /\ ~tool.handled
        /\ ~game.handled
        /\ chats < MaxChats
        /\ HasFreeSlot
        /\ memories' = r.mem
        /\ file' = r.file
        /\ chats' = chats + 1
        /\ tasks' = [tasks EXCEPT ![FreeSlot] = [pc |-> "typing", user |-> u, content |-> text]]
        /\ appended' = Logged(appended, r.mem, u, "user", text, now)
        /\ ev' = [Seen(Event("text", u), memories, u) EXCEPT !.text = text, !.route = "chat"]
        /\ UNCHANGED <<store_ok, persona, now>>

\* handle_text_message from get_user_context to the await of message.reply
ChatGenerate(s) ==
    \E response \in AIResponses :
        LET u == tasks[s].user
        IN  /\ tasks[s].pc = "typing"
            /\ memories' = get_memory(memories, u)
            /\ tasks' = [tasks EXCEPT ![s] =
                            [pc |-> "replying", user |-> u,
                             content |-> IF response # <<>> THEN response ELSE error_msg]]
            /\ ev' = [Seen(Event("chat_generate", u), memories, u) EXCEPT
                         !.text = tasks[s].content, !.arg = persona]
            /\ UNCHANGED <<file, store_ok, persona, now, chats, appended>>

\* handle_text_message after message.reply: add_assistant_message
ChatFinish(s) ==
    LET u == tasks[s].user
        r == add_assistant_message(memories, file, u, tasks[s].content, now, store_ok)
    IN  /\ tasks[s].pc = "replying"
        /\ memories' = r.mem
        /\ file' = r.file
        /\ tasks' = [tasks EXCEPT ![s] = Idle]
        /\ appended' = Logged(appended, r.mem, u, "assistant", tasks[s].content, now)
        /\ ev' = [Seen(Event("chat_finish", u), memories, u) EXCEPT !.text = tasks[s].content]
        /\ UNCHANGED <<store_ok, persona, now, chats>>

\* cmd_memory_clear and the confirm_clear_memory callback
ClearMemory(u) ==
    LET r == clear_user_memory(memories, file, u, store_ok)
    IN  /\ memories' = r.mem
        /\ file' = r.file
        /\ appended' = [appended EXCEPT ![u] = <<>>]
        /\ ev' = [Seen(Event("clear_memory", u), memories, u) EXCEPT
                     !.reply = IF r.removed THEN "cleared" ELSE "not_cleared"]
        /\ UNCHANGED <<store_ok, persona, tasks, now, chats>>

\* handle_callback, guess_<difficulty>
GuessStart(u, difficulty) ==
    \E target_number \in GuessRange(difficulty) \cap Targets :
        LET payload == Put(Put(EmptyDict, "target_number", target_number),
                           "difficulty", difficulty)
            r == set_user_active_game(memories, file, u, "guess_number", payload, now, store_ok)
        IN  /\ memories' = r.mem
            /\ file' = r.file
            /\ ev' = [Seen(Event("guess_start", u), memories, u) EXCEPT
                         !.arg = difficulty,
                         !.exact = /\ r.mem[u].active_game = "guess_number"
                                   /\ r.mem[u].game_data = payload]
            /\ UNCHANGED <<store_ok, persona, tasks, now, chats, appended>>

\* handle_callback, game_ball
BallStart(u) ==
    LET r == set_user_active_game(memories, file, u, "magic_ball", EmptyDict, now, store_ok)
    IN  /\ memories' = r.mem
        /\ file' = r.file
        /\ ev' = [Seen(Event("ball_start", u), memories, u) EXCEPT
                     !.exact = /\ r.mem[u].active_game = "magic_ball"
                               /\ r.mem[u].game_data = EmptyDict]
        /\ UNCHANGED <<store_ok, persona, tasks, now, chats, appended>>

\* _handle_translation_language_callback, lang_<code>
LangStart(u, lang) ==
    LET r == set_user_active_game(memories, file, u, "translate_" \o lang, EmptyDict,
                                  now, store_ok)
    IN  /\ lang \in LanguageCodes
        /\ memories' = r.mem
        /\ file' = r.file
        /\ ev' = [Seen(Event("lang_start", u), memories, u) EXCEPT
                     !.arg = lang,
                     !.exact = /\ r.mem[u].active_game = "translate_" \o lang
                               /\ r.mem[u].game_data = EmptyDict]
        /\ UNCHANGED <<store_ok, persona, tasks, now, chats, appended>>

\* handle_callback, game_quiz
QuizSetup(u) ==
    LET r == set_user_active_game(memories, file, u, "quiz_setup", QuizSetupData, now, store_ok)
    IN  /\ memories' = r.mem
        /\ file' = r.file
        /\ ev' = [Seen(Event("quiz_setup", u), memories, u) EXCEPT
                     !.exact = /\ r.mem[u].active_game = "quiz_setup"
                               /\ r.mem[u].game_data = QuizSetupData]
        /\ UNCHANGED <<store_ok, persona, tasks, now, chats, appended>>

\* handle_callback, quiz_industry_<industry>
QuizIndustry(u, industry) ==
    LET r == quiz_setting(memories, file, u, "industry", industry, store_ok)
    IN  /\ memories' = r.mem
        /\ file' = r.file
        /\ ev' = [Seen(Event("quiz_industry", u), memories, u) EXCEPT
                     !.arg = industry, !.reply = r.reply]
        /\ UNCHANGED <<store_ok, persona, tasks, now, chats, appended>>

\* handle_callback, quiz_count_<n>
QuizCount(u, count) ==
    LET r == quiz_setting(memories, file, u, "question_count", count, store_ok)
    IN  /\ memories' = r.mem
        /\ file' = r.file
        /\ ev' = [Seen(Event("quiz_count", u), memories, u) EXCEPT !.reply = r.reply]
        /\ UNCHANGED <<store_ok, persona, tasks, now, chats, appended>>

\* handle_callback, quiz_count_custom
QuizCountCustom(u) ==
    LET r == set_user_active_game(memories, file, u, "quiz_custom_count", EmptyDict,
                                  now, store_ok)
    IN  /\ memories' = r.mem
        /\ file' = r.file
        /\ ev' = [Seen(Event("quiz_count_custom", u), memories, u) EXCEPT
                     !.exact = /\ r.mem[u].active_game = "quiz_custom_count"
                               /\ r.mem[u].game_data = EmptyDict]
        /\ UNCHANGED <<store_ok, persona, tasks, now, chats, appended>>

\* handle_callback, quiz_start, with the _show_next_quiz_question it calls
QuizStart(u) ==
    \E generated \in BOOLEAN :
        LET ms == get_memory(memories, u)
            game_data == ms[u].game_data
            quiz_session == QuizSession(game_data, now)
            set == set_user_active_game(ms, file, u, "quiz_active", quiz_session, now, store_ok)
            shown == show_next_quiz_question(set.mem, set.file, u, now, generated, store_ok)
        IN  /\ memories' = IF NonEmpty(game_data) THEN shown.mem ELSE ms
            /\ file' = IF NonEmpty(game_data) THEN shown.file ELSE file
            /\ ev' = [Seen(Event("quiz_start", u), memories, u) EXCEPT
                         !.reply = IF NonEmpty(game_data) THEN shown.reply ELSE "setup_error",
                         !.count = IF NonEmpty(game_data)
                                   THEN quiz_session.total_questions ELSE 0,
                         !.exact = NonEmpty(game_data) =>
                                      /\ set.mem[u].active_game = "quiz_active"
                                      /\ set.mem[u].game_data = quiz_session]
            /\ UNCHANGED <<store_ok, persona, tasks, now, chats, appended>>

\* handle_callback, quiz_answer_<n>, up to its first await
QuizAnswer(u, user_answer) ==
    LET r == quiz_answer(memories, file, u, user_answer, store_ok)
    IN  /\ r.then # "" => HasFreeSlot
        /\ memories' = r.mem
        /\ file' = r.file
        /\ tasks' = IF r.then # ""
                    THEN [tasks EXCEPT ![FreeSlot] = [pc |-> r.then, user |-> u, content |-> <<>>]]
                    ELSE tasks
        /\ ev' = [Seen(Event("quiz_answer", u), memories, u) EXCEPT
                     !.arg = user_answer, !.reply = r.reply]
        /\ UNCHANGED <<store_ok, persona, now, chats, appended>>

\* quiz_answer_ after the last question: clear_user_active_game, once the
\* results are shown
QuizAnswerClear(s) ==
    LET u == tasks[s].user
        r == clear_user_active_game(memories, file, u, store_ok)
    IN  /\ tasks[s].pc = "clear"
        /\ memories' = r.mem
        /\ file' = r.file
        /\ tasks' = [tasks EXCEPT ![s] = Idle]
        /\ ev' = Seen(Event("quiz_answer_clear", u), memories, u)
        /\ UNCHANGED <<store_ok, persona, now, chats, appended>>

\* quiz_answer_ otherwise: _show_next_quiz_question, after asyncio.sleep
QuizAnswerShowNext(s) ==
    \E generated \in BOOLEAN :
        LET u == tasks[s].user
            r == show_next_quiz_question(memories, file, u, now, generated, store_ok)
        IN  /\ tasks[s].pc = "show_next"
            /\ memories' = r.mem
            /\ file' = r.file
            /\ tasks' = [tasks EXCEPT ![s] = Idle]
            /\ ev' = [Seen(Event("quiz_show_next", u), memories, u) EXCEPT !.reply = r.reply]
            /\ UNCHANGED <<store_ok, persona, now, chats, appended>>

\* handle_callback, quiz_hint
QuizHint(u) ==
    LET r == quiz_hint(memories, file, u, store_ok)
    IN  /\ memories' = r.mem
        /\ file' = r.file
        /\ ev' = [Seen(Event("quiz_hint", u), memories, u) EXCEPT !.reply = r.reply]
        /\ UNCHANGED <<store_ok, persona, tasks, now, chats, appended>>

\* handle_callback, quiz_finish
QuizFinish(u) ==
    LET r == finish_quiz(memories, file, u, store_ok)
    IN  /\ memories' = r.mem
        /\ file' = r.file
        /\ ev' = [Seen(Event("quiz_finish", u), memories, u) EXCEPT !.reply = r.reply]
        /\ UNCHANGED <<store_ok, persona, tasks, now, chats, appended>>

\* handle_callback, persona_<type> (and cmd_friendly, cmd_programmer):
\* persona_manager.set_persona and update_user_persona
PersonaSwitch(u, persona_type) ==
    LET r == update_user_persona(memories, file, u, PersonaName(persona_type), store_ok)
    IN  /\ persona_type \in PersonaTypes
        /\ persona' = persona_type
        /\ memories' = r.mem
        /\ file' = r.file
        /\ ev' = [Seen(Event("persona", u), memories, u) EXCEPT !.arg = persona_type]
        /\ UNCHANGED <<store_ok, tasks, now, chats, appended>>

\* cmd_expert, cmd_creative, cmd_professional: persona_manager.set_persona
\* and a reply, the user's memory is not touched
PersonaCommand(u, persona_type) ==
    /\ persona_type \in {"expert", "creative", "professional"}
    /\ persona' = persona_type
    /\ ev' = [Seen(Event("persona", u), memories, u) EXCEPT !.arg = persona_type]
    /\ UNCHANGED <<memories, file, store_ok, tasks, now, chats, appended>>

\* a call of memory_manager.cleanup_old_memories
CleanupStale ==
    LET r == cleanup_old_memories(memories, file, now, store_ok)
    IN  /\ memories' = r.mem
        /\ file' = r.file
        /\ ev' = [Event("cleanup", 0) EXCEPT !.count = r.count]
        /\ UNCHANGED <<store_ok, persona, tasks, now, chats, appended>>

\* hours pass
Tick(hours) ==
    /\ now + hours <= MaxClock
    /\ now' = now + hours
    /\ ev' = Event("tick", 0)
    /\ UNCHANGED <<memories, file, store_ok, persona, tasks, chats, appended>>

\* the store file becomes writable, or stops being so
StoreChange ==
    /\ store_ok' = ~store_ok
    /\ ev' = Event("store", 0)
    /\ UNCHANGED <<memories, file, persona, tasks, now, chats, appended>>

\* no handler waits at an await
Quiet ==
    \A s \in Slots : tasks[s].pc = "idle"

\* The players send one update at a time: the next one comes when the
\* handler of the last one has finished.
Next ==
    \/ \E u \in Players : \E raw \in Texts : Quiet /\ TextTool(u, raw)
    \/ \E u \in Players : \E raw \in Texts : Quiet /\ TextGame(u, raw)
    \/ \E u \in Players : \E raw \in Texts : Quiet /\ TextChat(u, raw)
    \/ \E s \in Slots : CustomCountFinish(s)
    \/ \E s \in Slots : ChatGenerate(s)
    \/ \E s \in Slots : ChatFinish(s)
    \/ \E u \in Players : Quiet /\ ClearMemory(u)
    \/ \E u \in Players : \E difficulty \in {"easy"} : Quiet /\ GuessStart(u, difficulty)
    \/ \E u \in Players : Quiet /\ BallStart(u)
    \/ \E u \in Players : Quiet /\ LangStart(u, "en")
    \/ \E u \in Players : Quiet /\ QuizCountCustom(u)

Spec ==
    Init /\ [][Next]_vars

\* the texts sent while earlier updates are still being handled
OverlappingTexts(u) ==
    IF u = 1 THEN {T_hi, T_math} ELSE {T_hi}

\* Users send updates at any time, also while handlers of earlier updates
\* wait at an await.
NextOverlapping ==
    \/ \E u \in Users : \E raw \in OverlappingTexts(u) : TextTool(u, raw)
    \/ \E u \in Users : \E raw \in OverlappingTexts(u) : TextGame(u, raw)
    \/ \E u \in Users : \E raw \in OverlappingTexts(u) : TextChat(u, raw)
    \/ \E s \in Slots : ChatGenerate(s)
    \/ \E s \in Slots : ChatFinish(s)
    \/ \E u \in Players : ClearMemory(u)
    \/ \E u \in Players : BallStart(u)

SpecOverlapping ==
    Init /\ [][NextOverlapping]_vars

\* the question counts chosen with the quiz_count_ buttons
QuizCounts ==
    {5, 10}

\* Users play the quiz: they press its buttons at any time.
NextQuiz ==
    \/ \E u \in Players : QuizSetup(u)
    \/ \E u \in Players : QuizIndustry(u, "history")
    \/ \E u \in Players : \E count \in QuizCounts : QuizCount(u, count)
    \/ \E u \in Players : QuizStart(u)
    \/ \E u \in Players : \E user_answer \in {"1", "2"} : QuizAnswer(u, user_answer)
    \/ \E s \in Slots : QuizAnswerClear(s)
    \/ \E s \in Slots : QuizAnswerShowNext(s)
    \/ \E u \in Players : QuizHint(u)
    \/ \E u \in Players : QuizFinish(u)

\* the quiz is played on a new deployment
InitNew ==
    Init /\ file = NoFile

SpecQuiz ==
    InitNew /\ [][NextQuiz]_vars

\* The users chat and a player starts the quiz while hours pass and the store
\* file comes and goes; the old messages are cleaned up.
NextCleanup ==
    \/ \E u \in Others : Quiet /\ TextChat(u, T_hi)
    \/ \E s \in Slots : ChatGenerate(s)
    \/ \E s \in Slots : ChatFinish(s)
    \/ \E u \in Players : Quiet /\ QuizSetup(u)
    \/ \E u \in Players : Quiet /\ QuizStart(u)
    \/ \E hours \in {12} : Quiet /\ Tick(hours)
    \/ Quiet /\ StoreChange
    \/ Quiet /\ CleanupStale

SpecCleanup ==
    InitNew /\ [][NextCleanup]_vars

\* Users choose personas by the buttons and by the commands, and chat.
NextPersonaCommands ==
    \/ \E u \in Users : \E persona_type \in PersonaTypes : PersonaSwitch(u, persona_type)
    \/ \E u \in Users : \E persona_type \in {"expert", "creative"} :
           PersonaCommand(u, persona_type)
    \/ \E u \in Users : TextChat(u, T_hi)
    \/ \E s \in Slots : ChatGenerate(s)
    \/ \E s \in Slots : ChatFinish(s)

SpecPersonaCommands ==
    InitNew /\ [][NextPersonaCommands]_vars

\* The users play, the player also the quiz, and the process is restarted.
NextRestart ==
    \/ \E u \in Users : GuessStart(u, "easy")
    \/ \E u \in Users : \E raw \in {T_7, T_hi} : TextGame(u, raw)
    \/ \E u \in Players : QuizSetup(u)
    \/ \E u \in Players : QuizStart(u)
    \/ Restart

SpecRestart ==
    InitOld /\ [][NextRestart]_vars

\* A player goes through the settings of the quiz, with a number of
\* questions of their own, and plays it, or a guessing game; the button
\* quiz_count_custom is pressed in the menu of the settings.
NextQuizSettings ==
    \/ \E u \in Players : Quiet /\ GuessStart(u, "easy")
    \/ \E u \in Players : Quiet /\ QuizSetup(u)
    \/ \E u \in Players : Quiet /\ QuizIndustry(u, "history")
    \/ \E u \in Players : Quiet /\ QuizCount(u, 5)
    \/ \E u \in Players : Quiet /\ ActiveOf(memories, u) = "quiz_setup" /\ QuizCountCustom(u)
    \/ \E u \in Players : Quiet /\ TextGame(u, T_7)
    \/ \E s \in Slots : CustomCountFinish(s)
    \/ \E u \in Players : Quiet /\ QuizStart(u)
    \/ \E u \in Players : Quiet /\ QuizAnswer(u, "2")
    \/ \E s \in Slots : QuizAnswerClear(s)
    \/ \E s \in Slots : QuizAnswerShowNext(s)
    \/ \E u \in Players : Quiet /\ QuizHint(u)
    \/ \E u \in Players : Quiet /\ QuizFinish(u)

SpecQuizSettings ==
    InitNew /\ [][NextQuizSettings]_vars

\* A player starts the quiz or asks the magic ball, and sends texts.
NextQuizText ==
    \/ \E u \in Players : QuizSetup(u)
    \/ \E u \in Players : QuizStart(u)
    \/ \E u \in Players : BallStart(u)
    \/ \E u \in Players : \E raw \in QuizTexts : TextTool(u, raw)
    \/ \E u \in Players : \E raw \in QuizTexts : TextGame(u, raw)
    \/ \E u \in Players : \E raw \in QuizTexts : TextChat(u, raw)
    \/ \E s \in Slots : ChatGenerate(s)
    \/ \E s \in Slots : ChatFinish(s)

SpecQuizText ==
    InitNew /\ [][NextQuizText]_vars

\* Users choose personas and chat.
NextPersona ==
    \/ \E u \in Users : \E persona_type \in PersonaTypes : PersonaSwitch(u, persona_type)
    \/ \E u \in Users : TextChat(u, T_hi)
    \/ \E s \in Slots : ChatGenerate(s)
    \/ \E s \in Slots : ChatFinish(s)

SpecPersona ==
    InitNew /\ [][NextPersona]_vars

\* A player plays the quiz while the other users start their own games.
NextTwoUsers ==
    \/ \E u \in Others : \E difficulty \in {"easy"} : GuessStart(u, difficulty)
    \/ \E u \in Others : BallStart(u)
    \/ \E u \in Players : QuizSetup(u)
    \/ \E u \in Players : QuizStart(u)
    \/ \E u \in Players : \E user_answer \in {"1", "2"} : QuizAnswer(u, user_answer)
    \/ \E s \in Slots : QuizAnswerClear(s)
    \/ \E s \in Slots : QuizAnswerShowNext(s)

SpecTwoUsers ==
    InitNew /\ [][NextTwoUsers]_vars

(***************************************************************************)
(* The claims                                                              *)
(***************************************************************************)

\* does the activity take the text: any text that is not empty for the
\* magic ball and a pending translation, a number for number-guess, any
\* text for the pending question count
Accepts(active, target, text) ==
    CASE active = "magic_ball" -> Len(text) > 0
      [] active \in TranslateGames -> Len(text) > 0
      [] active = "guess_number" -> IsDigit(text) /\ target # 0
      [] active = "quiz_custom_count" -> TRUE
      [] OTHER -> FALSE

\* C1: a text of a user whose active activity accepts it is dispatched to
\* that activity, and not to a natural-language tool.
C1_RoutingPrecedence ==
    (ev.op = "text" /\ Accepts(ev.active, ev.target, ev.text)) => ev.route = "activity"

\* C2: a history is never longer than max_messages, and it holds exactly the
\* last max_messages of the messages appended, in the order they were appended.
C2_HistoryBound ==
    \A u \in DOMAIN memories :
        /\ Len(memories[u].messages) <= max_messages
        /\ memories[u].messages = LastN(appended[u], max_messages)

\* more messages were appended than a history holds
C2_Witness ==
    \E u \in DOMAIN memories :
        /\ Len(appended[u]) > max_messages
        /\ Len(memories[u].messages) = max_messages
        /\ memories[u].messages[max_messages] = appended[u][Len(appended[u])]

CounterKept ==
    \A u \in DOMAIN memories :
        ev'.op # "clear_memory" =>
            /\ u \in DOMAIN memories'
            /\ memories'[u].total_messages >= memories[u].total_messages

C5_NumberGuess ==
    (ev.op = "text" /\ ev.active = "guess_number" /\ ev.target # 0 /\ IsDigit(ev.text)) =>
        LET guess == ToInt(ev.text)
            after == memories[ev.user]
        IN  /\ ev.route = "activity"
            /\ ev.reply = "lower" <=> guess > ev.target
            /\ ev.reply = "higher" <=> guess < ev.target
            /\ ev.reply = "correct" <=> guess = ev.target
            /\ after.active_game = "None" <=> ev.reply = "correct"
            /\ ev.reply # "correct" =>
                  /\ after.active_game = "guess_number"
                  /\ after.game_data.target_number = ev.target

\* a guess above the target: "lower", and the game goes on
C5_Witness ==
    /\ ev.op = "text"
    /\ ev.active = "guess_number"
    /\ ev.text = T_7
    /\ ev.target = 3
    /\ ev.reply = "lower"
    /\ memories[ev.user].active_game = "guess_number"

C7_HintBudget ==
    /\ <<max_hints(5), max_hints(10), max_hints(15), max_hints(20), max_hints(25),
         max_hints(30)>> = <<0, 1, 2, 3, 4, 5>>
    /\ \A u \in DOMAIN memories :
          LET d == memories[u].game_data
          IN  QuizActive(d) => GetNum(d, "used_hints", 0) <= max_hints(d.total_questions)
    /\ (ev.op = "quiz_hint" /\ ev.running /\ ev.used = max_hints(ev.total)) =>
          /\ ev.reply \in {"no_hints_in_this_quiz", "all_hints_used"}
          /\ GetNum(DataOf(memories, ev.user), "used_hints", 0) = ev.used

\* the one hint of a quiz of ten questions is used, and the next is rejected
C7_Witness ==
    /\ ev.op = "quiz_hint"
    /\ ev.running
    /\ ev.total = 10
    /\ ev.used = 1
    /\ ev.reply = "all_hints_used"
    /\ DataOf(memories, ev.user).used_hints = 1

\* which triggers match the texts sent, computed once
TriggersOf ==
    [text \in InputTexts |->
        [weather |-> ContainsAny(Strip(Lower(text)), weather_keywords),
         translation |-> ContainsAny(Strip(Lower(text)), translate_keywords),
         calculator |-> is_math_expression(text),
         fun |-> ContainsAny(Strip(Lower(text)), fun_keywords)]]

\* C8: the tool that handles a text is the first in the order weather,
\* translation, calculator, fun whose trigger matches; a text with a weather
\* keyword and an arithmetic pattern goes to weather.
C8_ToolOrder ==
    (ev.op = "text" /\ ev.route \in ToolNames) =>
        LET m == TriggersOf[ev.text]
        IN  /\ m.weather => ev.route = "weather"
            /\ (~m.weather /\ m.translation) => ev.route = "translation"
            /\ (~m.weather /\ ~m.translation /\ m.calculator) => ev.route = "calculator"
            /\ (~m.weather /\ ~m.translation /\ ~m.calculator) => ev.route = "fun"

\* a text with a weather keyword and an arithmetic pattern was handled
C8_Witness ==
    /\ ev.op = "text"
    /\ ev.text = T_weather_math
    /\ TriggersOf[ev.text].weather
    /\ TriggersOf[ev.text].calculator
    /\ ev.route = "weather"

ToolKeepsState ==
    (ev'.op = "text" /\ ev'.route \in ToolNames) =>
        /\ memories' = memories
        /\ file' = file

\* C9: a text handled by a tool, usage hints and failures of the
\* collaborator included, leaves the memories as they were.
C9_ToolKeepsState ==
    [][ToolKeepsState]_vars

\* a tool failed on a text of a user who has a history and an activity
C9_Witness ==
    /\ ev.op = "text"
    /\ ev.route \in ToolNames
    /\ ev.reply \in {"weather_usage", "calc_failed", "weather_failed", "translate_failed"}
    /\ ev.user \in DOMAIN memories
    /\ memories[ev.user].messages # <<>>
    /\ memories[ev.user].active_game # "None"

\* C10: in a history every message of the user but the last is directly
\* followed by the reply of the assistant.
C10_ReplyFollows ==
    \A u \in DOMAIN memories :
        \A i \in 1..(Len(memories[u].messages) - 1) :
            memories[u].messages[i].role = "user" =>
                memories[u].messages[i + 1].role = "assistant"

OthersKept ==
    \A u \in DOMAIN memories :
        u # ev'.user => (u \in DOMAIN memories' /\ memories'[u] = memories[u])

TimesAsObjects(mems) ==
    [u \in DOMAIN mems |-> LoadUser(mems[u])]

\* C12: the memories saved to a writable store and loaded at a restart are
\* the memories that were saved (histories, counters, active games and their
\* data, times compared by their value), and saving what was loaded writes
\* the same file again.
C12_RoundTrip ==
    LET Same(saved, loaded) ==
            /\ loaded = TimesAsObjects(memories)
            /\ save_memories(loaded, saved.file, TRUE).file = saved.file
    IN  Same(save_memories(memories, file, TRUE),
             load_memories(save_memories(memories, file, TRUE).file))

\* the steps in which add_user_message, add_assistant_message,
\* set_user_active_game, clear_user_active_game or clear_user_memory has run
SavingOps ==
    {"chat_finish", "clear_memory", "guess_start", "ball_start", "lang_start",
     "quiz_count_custom", "custom_count_finish"}

MutatingStep ==
    \/ ev'.op \in SavingOps
    \/ ev'.op = "text" /\ ev'.route = "chat"
    \/ ev'.op = "text" /\ ev'.route = "activity" /\ memories' # memories

\* the record of user u in the file is the memory of u, times compared by
\* their value; no record when u has no memory
PersistedAfter(u) ==
    IF u \in DOMAIN memories'
    THEN /\ file'.state = "valid"
         /\ u \in DOMAIN file'.data
         /\ LoadUser(file'.data[u]) = LoadUser(memories'[u])
    ELSE file'.state = "valid" => u \notin DOMAIN file'.data

SaveFailed ==
    ~store_ok \/ file'.state = "corrupt"

\* what the step made of the memories is what they hold after the failed
\* save: the quiz session quiz_start made and showed a question of is the
\* game data of the player, and the memories of the other users are as they
\* were (times compared by their value)
StateSurvives ==
    /\ (ev'.op = "quiz_start" /\ ev'.reply = "question_shown") =>
            /\ memories'[ev'.user].active_game = "quiz_active"
            /\ QuizActive(memories'[ev'.user].game_data)
            /\ Len(memories'[ev'.user].game_data.questions) = 1
    /\ \A u \in DOMAIN memories :
            u # ev'.user =>
                /\ u \in DOMAIN memories'
                /\ LoadUser(memories'[u]) = LoadUser(memories[u])

ClearedInMemory ==
    /\ ev'.reply = "cleared" <=> ev'.user \in DOMAIN memories
    /\ ev'.user \notin DOMAIN memories'
    /\ get_memory(memories', ev'.user)[ev'.user] = NewMemory

ClearedInStore ==
    ~(file'.state = "valid" /\ ev'.user \in DOMAIN file'.data)

\* C15 as stated: clearing the memory of a user answers "cleared" exactly
\* when the user had one; afterwards the user has no memory and no record
\* in the store, and the next use makes a new memory: no messages, counter
\* 0, no active game.
C15_ClearAll ==
    [][ev'.op = "clear_memory" => (ClearedInMemory /\ ClearedInStore)]_vars

\* C15 amended: the record is gone from the store when the store can be
\* written; the rest holds always.
C15_ClearAllWritable ==
    [][ev'.op = "clear_memory" => (ClearedInMemory /\ (store_ok => ClearedInStore))]_vars

\* a stored memory was cleared and the file written without it
C15_Witness ==
    /\ ev.op = "clear_memory" /\ ev.reply = "cleared"
    /\ store_ok
    /\ file.state = "valid"
    /\ ev.user \notin DOMAIN file.data
    /\ ev.user \notin DOMAIN memories

\* C16: a text for the magic ball or for a pending translation whose
\* collaborator (the AI, the translator) fails leaves the game active, and
\* the game is cleared only when the collaborator answered.
C16_FailureKeepsActivity ==
    (/\ ev.op = "text" /\ ev.route = "activity"
     /\ ev.active \in {"magic_ball"} \cup TranslateGames)
        => IF ev.arg = "collab_failed"
           THEN ActiveOf(memories, ev.user) = ev.active
           ELSE ActiveOf(memories, ev.user) = "None"

\* the step took a text that is not a number while number-guess was active
InvalidGuess ==
    /\ ev'.op = "text"
    /\ ev'.active = "guess_number"
    /\ ~IsDigit(ev'.text)

\* C17: a text that is not a digit string, sent while number-guess is
\* active, is not given to the game: it gets no reply of the game, the game
\* stays active with the same data, and the text goes the way of a text sent
\* with no game active (a tool or the chat).
C17_InvalidGuessIgnored ==
    [][InvalidGuess =>
          /\ ev'.route \in ToolNames \cup {"chat"}
          /\ ev'.reply \notin {"higher", "lower", "correct"}
          /\ memories'[ev'.user].active_game = "guess_number"
          /\ memories'[ev'.user].game_data = memories[ev'.user].game_data]_vars

\* "hi" went to the chat while number-guess stayed active
C17_Witness ==
    /\ ev.op = "text" /\ ev.active = "guess_number" /\ ev.text = T_hi
    /\ ev.route = "chat"
    /\ ActiveOf(memories, ev.user) = "guess_number"
    /\ GetNum(DataOf(memories, ev.user), "target_number", 0) = ev.target

\* total_messages of a user, 0 for a user without a memory
TotalOf(mems, u) ==
    IF u \in DOMAIN mems THEN mems[u].total_messages ELSE 0

\* the message a history ends with, and the one before it
LastMessage(mems, u) ==
    mems[u].messages[Len(mems[u].messages)]

MessageBeforeLast(mems, u) ==
    mems[u].messages[Len(mems[u].messages) - 1]

\* the three steps of a chat turn
ChatTurnStep ==
    /\ (ev'.op = "text" /\ ev'.route = "chat") =>
            /\ TotalOf(memories', ev'.user) = TotalOf(memories, ev'.user) + 1
            /\ LastMessage(memories', ev'.user).role = "user"
            /\ LastMessage(memories', ev'.user).content = ev'.text
    /\ ev'.op = "chat_generate" =>
            TotalOf(memories', ev'.user) = TotalOf(memories, ev'.user)
    /\ ev'.op = "chat_finish" =>
            /\ TotalOf(memories', ev'.user) = TotalOf(memories, ev'.user) + 1
            /\ LastMessage(memories', ev'.user).role = "assistant"
            /\ LastMessage(memories', ev'.user).content \in
                   (AIResponses \ {<<>>}) \cup {error_msg}

\* C18: a text that goes to the chat is appended as a user message before the
\* AI is called, the call appends nothing, and after it exactly one assistant
\* message is appended, the response or the error text: the counter grows by
\* one at the start of the turn and by one at its end, by 2 in the turn.
C18_ChatTurn ==
    [][ChatTurnStep]_vars

\* a turn whose AI call failed has ended: the error text follows the text
C18_Witness ==
    /\ ev.op = "chat_finish"
    /\ Quiet
    /\ LastMessage(memories, ev.user).content = error_msg
    /\ MessageBeforeLast(memories, ev.user).role = "user"
    /\ TotalOf(memories, ev.user) = 2

\* the language and the text a translation request names, for the texts sent
TranslationOf ==
    [text \in InputTexts |-> extract_translation_from_request(text)]

\* translator.translate_text was called in the last step: its result, or its
\* failure, is the reply
TranslatorCalled ==
    /\ ev.op = "text"
    /\ ev.reply \in {"translation", "translate_failed"}

\* C19: the translator is called only with a supported language, the one
\* chosen with a lang_ button or the one a request names; a request that
\* names a language that is not supported is answered with the list of the
\* languages, without a call of the translator.
C19_SupportedLanguagesOnly ==
    /\ TranslatorCalled =>
            IF ev.route = "activity"
            THEN ev.active \in TranslateGames
            ELSE /\ TranslationOf[ev.text].ok
                 /\ TranslationOf[ev.text].lang \in SUPPORTED_LANGUAGES
    /\ (/\ ev.op = "text" /\ ev.route = "translation"
        /\ TranslationOf[ev.text].ok
        /\ TranslationOf[ev.text].lang \notin SUPPORTED_LANGUAGES)
            => ev.reply = "unsupported_language"

\* "translate to xx hi" was answered with the list of the languages
C19_Witness ==
    /\ ev.op = "text" /\ ev.text = T_translate_bad
    /\ ev.route = "translation"
    /\ TranslationOf[ev.text].lang = <<"x", "x">>
    /\ ev.reply = "unsupported_language"

\* the persona a user chose last, friendly for a user who chose none
OwnPersona(u) ==
    IF u \in DOMAIN memories /\ memories[u].current_persona # "None"
    THEN CHOOSE persona_type \in PersonaTypes :
             PersonaName(persona_type) = memories[u].current_persona
    ELSE "friendly"

\* C20: the prompt for a message of a user is built with the persona that
\* user chose last (the friendly one when the user chose none), whatever
\* the other users chose.
C20_PersonaIsolation ==
    ev.op = "chat_generate" => ev.arg = OwnPersona(ev.user)

\* the answers a question of the quiz has
QuizAnswerTexts ==
    {<<"1">>, <<"2">>, <<"3">>, <<"4">>}

OlderThanMaxAge(msg, time) ==
    time - msg.timestamp.t > max_age_hours

NotOld(messages, time) ==
    LET Retained(msg) == ~OlderThanMaxAge(msg, time)
    IN  SelectSeq(messages, Retained)

CleanupRemovesOld ==
    \A u \in DOMAIN memories :
        /\ u \in DOMAIN memories'
        /\ memories'[u].messages = NotOld(memories[u].messages, now)

CleanupCounts ==
    ev'.count = Cardinality({u \in DOMAIN memories :
                                Len(memories'[u].messages) < Len(memories[u].messages)})

CleanupFrame ==
    /\ DOMAIN memories' = DOMAIN memories
    /\ \A u \in DOMAIN memories :
        /\ memories'[u].total_messages = memories[u].total_messages
        /\ memories'[u].active_game = memories[u].active_game
        /\ memories'[u].game_data = memories[u].game_data

CleanupSavesChanges ==
    ev'.count = 0 => file' = file

\* C22: the cleanup removes from every user's history exactly the messages
\* older than max_age_hours, keeping the others in their order; it returns
\* the number of users whose history became shorter; it leaves the count of
\* all messages and the active game with its data as they were; and when
\* nothing was removed the file is not written.
C22_CleanupStale ==
    [][ev'.op = "cleanup" =>
          CleanupRemovesOld /\ CleanupCounts /\ CleanupFrame /\ CleanupSavesChanges]_vars

\* the counters of a running quiz are in their ranges
QuizProgress(mems, u) ==
    ActiveOf(mems, u) = "quiz_active" =>
        LET quiz_session == DataOf(mems, u)
        IN  /\ {"current_question", "correct_answers", "total_questions"}
                   \subseteq DOMAIN quiz_session
            /\ 0 <= quiz_session.correct_answers
            /\ quiz_session.correct_answers <= quiz_session.current_question
            /\ quiz_session.current_question < quiz_session.total_questions

\* the running quiz of u ends in this step only by the answer that brings
\* current_question to total_questions, and such an answer ends it
QuizEndsAtLast(u) ==
    LET ended == /\ ActiveOf(memories, u) = "quiz_active"
                 /\ ActiveOf(memories', u) # "quiz_active"
        last == /\ ev'.op = "quiz_answer" /\ ev'.user = u
                /\ ev'.reply \in {"right", "wrong"}
                /\ ev'.idx + 1 = ev'.total
    IN  ended <=> last

CurrentPersonaOf(mems, u) ==
    IF u \in DOMAIN mems THEN mems[u].current_persona ELSE "None"

\* C24: after a user has switched the persona, by one of the commands or by
\* a persona button, current_persona of that user's memory is the name of
\* the persona chosen.
C24_PersonaStored ==
    ev.op = "persona" => CurrentPersonaOf(memories, ev.user) = PersonaName(ev.arg)

\* datetime.fromisoformat parses every timestamp of the record
CanBeLoaded(rec) ==
    \A i \in 1..Len(rec.messages) : rec.messages[i].timestamp.kind = "str"

\* the record was loaded with its history and its count of messages
LoadedAsStored(rec, m) ==
    /\ m.total_messages = rec.total_messages
    /\ Len(m.messages) = Len(rec.messages)
    /\ \A i \in 1..Len(rec.messages) :
           m.messages[i] = [rec.messages[i] EXCEPT !.timestamp = DateTime(@.t)]

\* C25: when the file is loaded, a record without the game state is loaded
\* with no active game and empty game data, its messages and its count of
\* messages kept; and every record that can be loaded is loaded, also when
\* the record of another user cannot.
C25_DefensiveLoad ==
    (ev.op \in {"init", "restart"} /\ file.state = "valid") =>
        \A u \in DOMAIN file.data :
            CanBeLoaded(file.data[u]) =>
                /\ u \in DOMAIN memories
                /\ "active_game" \notin DOMAIN file.data[u] =>
                       /\ memories[u].active_game = "None"
                       /\ memories[u].game_data = EmptyDict
                       /\ LoadedAsStored(file.data[u], memories[u])

\* the game u had going before the restart is there after it, with its data
ResumedAfterRestart(u) ==
    ActiveOf(memories, u) # "None" =>
        /\ ActiveOf(memories', u) = ActiveOf(memories, u)
        /\ convert_strings_to_datetime(DataOf(memories', u))
               = convert_strings_to_datetime(DataOf(memories, u))

HoldsTarget(game_data) ==
    /\ {"target_number", "difficulty"} \subseteq DOMAIN game_data
    /\ game_data.target_number \in GuessRange(game_data.difficulty)

QuizCallbacks ==
    {"quiz_answer", "quiz_hint", "quiz_industry", "quiz_count", "quiz_finish"}

\* C28: a quiz callback (an answer, a hint, an industry, a count, the
\* finish) that comes while the active game of the user is another game than
\* the quiz leaves the active game and its data as they are.
C28_QuizCallbacksGuarded ==
    [][(/\ ev'.op \in QuizCallbacks
        /\ ev'.active \notin {"None", "quiz_setup", "quiz_active"})
           => /\ ActiveOf(memories', ev'.user) = ActiveOf(memories, ev'.user)
              /\ DataOf(memories', ev'.user) = DataOf(memories, ev'.user)]_vars

\* C29: when the user has opened the settings of the quiz, pressed
\* quiz_count_custom and sent a number n from 1 to 50, and the handler of
\* that text has finished, a quiz_start that follows starts a quiz with n
\* questions.
C29_CustomCount ==
    [][(/\ ev.op = "custom_count_finish"
        /\ ev'.op = "quiz_start"
        /\ ev'.user = ev.user)
           => /\ ev'.reply # "setup_error"
              /\ ev'.count = ToInt(ev.text)]_vars

\* the memories after set_active_game on the memory of u, as they are
\* before anything is written
SetInMemory(mems, u, game_type, game_data, time) ==
    [get_memory(mems, u) EXCEPT ![u] = set_active_game(@, game_type, game_data, time)]

\* C30: writing the store file changes nothing in the memories: after
\* guess_<difficulty> and after game_quiz, which set the active game and
\* write the file, the memories are those that set_active_game made (the
\* active game, its data, the times as datetime objects), whether or not
\* the file could be written.
C30_SaveReadOnly ==
    [][/\ ev'.op = "guess_start" =>
              \E target_number \in Targets :
                  memories' = SetInMemory(memories, ev'.user, "guess_number",
                                          Put(Put(EmptyDict, "target_number", target_number),
                                              "difficulty", ev'.arg),
                                          now)
       /\ ev'.op = "quiz_setup" =>
              memories' = SetInMemory(memories, ev'.user, "quiz_setup", QuizSetupData, now)]_vars

====
